---------------------------- MODULE Spec2Model ----------------------------
(***************************************************************************)
(* Model of lib/oci_utils/impl/network_helpers.py.                          *)
(*                                                                         *)
(* Five parts, each with its own specification:                             *)
(*   Spec         the route table registry editor (add_route_table,        *)
(*                delete_route_table), called one after the other;         *)
(*   SpecMask     network_prefix_to_mask;                                  *)
(*   SpecInspect  get_network_namespace_infos;                              *)
(*   SpecMutate   add_static_ip_route, add_static_ip_rule,                  *)
(*                add_firewall_rule;                                       *)
(*   SpecConc     two registry calls whose steps interleave.               *)
(*                                                                         *)
(* A file is the sequence of its characters; a character is a one-         *)
(* character string.  Python's readlines, split, strip, startswith, int,   *)
(* '%d' and ''.join are operators on such sequences.                       *)
(***************************************************************************)
EXTENDS Integers, Sequences, FiniteSets, TLC

VARIABLES
    file,        \* content of /etc/iproute2/rt_tables
    bck,         \* content of /etc/iproute2/rt_tables.bck, or NoFile
    last,        \* the registry call that returned last, with its step outcomes
    prevAdd,     \* the successful add_route_table that was the call before `last`
    origUnique,  \* whether the initial registry had pairwise distinct numbers
    allTrue,     \* whether every registry call so far returned True
    calls,       \* number of registry calls made
    prefix,      \* argument of the last network_prefix_to_mask call
    mask,        \* its result
    maskCalls,   \* number of network_prefix_to_mask calls made
    pc,          \* position of get_network_namespace_infos
    ns_list,     \* _ns_list
    ns_i,        \* position of the outer loop in _ns_list
    nsls,        \* _nsls, the links of the namespace being inspected
    l_i,         \* position of the inner loop in _nsls
    result,      \* _result
    log,         \* which queries yielded fields, per link inspected so far
    script,      \* text of the caller's recording sink (a StringIO)
    mlast,       \* the add_static_ip_route/rule or add_firewall_rule call made last
    mcalls,      \* number of such calls made
    cpc,         \* position of each concurrent registry call
    cop,         \* its function and table name
    cnew,        \* its ''.join(_all_new_lines)
    cret,        \* its return value
    overlapped,  \* whether a call took a step while the other was under way
    clobbered    \* whether a restore replaced what the other call had written

regVars == <<file, bck, last, prevAdd, origUnique, allTrue, calls>>
maskVars == <<prefix, mask, maskCalls>>
inspVars == <<pc, ns_list, ns_i, nsls, l_i, result, log>>
mutVars == <<script, mlast, mcalls>>
concVars == <<cpc, cop, cnew, cret, overlapped, clobbered>>
vars == <<regVars, maskVars, inspVars, mutVars, concVars>>

---------------------------------------------------------------------------
(* Bounds of the model *)

MaxCalls == 2
MaxLines == 2
MaxMaskCalls == 4
MaxNs == 1
MaxLinks == 2
MaxMutCalls == 3

(* range(255) of add_route_table *)
TableRange == 255

---------------------------------------------------------------------------
(* Characters and the Python string operations of the registry editor *)

TAB == "\t"
NL == "\n"
SP == " "

Digits == <<"0", "1", "2", "3", "4", "5", "6", "7", "8", "9">>

IsDigit(c) == \E i \in 1..10 : Digits[i] = c

DigitVal(c) == (CHOOSE i \in 1..10 : Digits[i] = c) - 1

IsSpace(c) == c \in {SP, TAB, NL}

Min(S) == CHOOSE x \in S : \A y \in S : x <= y

Max(S) == CHOOSE x \in S : \A y \in S : x >= y

(* f.readlines(): the lines of the file, each with its line end, the last
   one possibly without.  LinesIn(s, lo, hi) is the lines of s[lo..hi],
   where lo starts a line and hi ends one; it cuts after the line end
   nearest the middle, which keeps the recursion shallow on long files. *)
RECURSIVE LinesIn(_, _, _)
LinesIn(s, lo, hi) ==
    LET ends == {i \in lo..(hi - 1) : s[i] = NL}
    IN  IF ends = {} THEN <<SubSeq(s, lo, hi)>>
        ELSE LET before == {i \in ends : i <= (lo + hi) \div 2}
                 k == IF before = {} THEN Min(ends) ELSE Max(before)
             IN  LinesIn(s, lo, k) \o LinesIn(s, k + 1, hi)

readlines(s) == IF s = <<>> THEN <<>> ELSE LinesIn(s, 1, Len(s))

(* ''.join(lines) *)
RECURSIVE join(_)
join(lines) ==
    IF lines = <<>> THEN <<>>
    ELSE IF Len(lines) = 1 THEN lines[1]
    ELSE LET h == Len(lines) \div 2
         IN  join(SubSeq(lines, 1, h)) \o join(SubSeq(lines, h + 1, Len(lines)))

(* line.split(): the maximal runs of non-whitespace characters *)
RECURSIVE split(_)
split(s) ==
    IF s = <<>> THEN <<>>
    ELSE IF IsSpace(s[1]) THEN split(Tail(s))
    ELSE LET stops == {i \in 1..Len(s) : IsSpace(s[i])}
             k == IF stops = {} THEN Len(s) + 1 ELSE Min(stops)
         IN  <<SubSeq(s, 1, k - 1)>> \o split(SubSeq(s, k, Len(s)))

(* len(line.strip()) > 0 *)
NotBlank(line) == \E i \in 1..Len(line) : ~IsSpace(line[i])

(* line.startswith('#') *)
IsComment(line) == Len(line) > 0 /\ line[1] = "#"

(* int(token) accepts an optional sign followed by decimal digits *)
RECURSIVE NatOf(_)
NatOf(ds) ==
    IF ds = <<>> THEN 0
    ELSE 10 * NatOf(SubSeq(ds, 1, Len(ds) - 1)) + DigitVal(ds[Len(ds)])

IsInt(tok) ==
    LET ds == IF tok # <<>> /\ tok[1] \in {"-", "+"} THEN Tail(tok) ELSE tok
    IN  ds # <<>> /\ \A i \in 1..Len(ds) : IsDigit(ds[i])

int(tok) ==
    IF tok[1] = "-" THEN 0 - NatOf(Tail(tok))
    ELSE IF tok[1] = "+" THEN NatOf(Tail(tok))
    ELSE NatOf(tok)

(* '%d' % n *)
RECURSIVE FmtNat(_)
FmtNat(n) ==
    IF n < 10 THEN <<Digits[n + 1]>>
    ELSE FmtNat(n \div 10) \o <<Digits[(n % 10) + 1]>>

FmtInt(n) == IF n < 0 THEN <<"-">> \o FmtNat(0 - n) ELSE FmtNat(n)


---------------------------------------------------------------------------
(* sudo_utils: the command executor behind the registry editor.  Each call
   yields the set of its possible outcomes: return code and file left. *)

NoFile == <<"<absent>">>

(* sudo_utils.copy_file(source, destination): /bin/cp -f *)
copy_file(src, dst) ==
    IF src = NoFile THEN {[rc |-> 1, dst |-> dst]}
    ELSE {[rc |-> 0, dst |-> src], [rc |-> 1, dst |-> dst]}

(* sudo_utils.write_to_file(path, content): a failed write leaves the file
   untouched or cut short *)
write_to_file(old, content) ==
    {[rc |-> 0, file |-> content]}
    \cup {[rc |-> 1, file |-> f] :
             f \in {old, SubSeq(content, 1, Len(content) \div 2)}}

(* sudo_utils.delete_file(path): /bin/rm -f *)
delete_file(f) == {[rc |-> 0, file |-> NoFile], [rc |-> 1, file |-> f]}

---------------------------------------------------------------------------
(* Route table registry editor *)

(* the lines add_route_table takes a table number from *)
EntryLines(lines) ==
    {i \in 1..Len(lines) : NotBlank(lines[i]) /\ ~IsComment(lines[i])}

(* int(line.split()[0]) raises ValueError on a first token that is no number *)
ScanRaises(lines) ==
    \E i \in EntryLines(lines) : ~IsInt(split(lines[i])[1])

(* tables_num *)
TablesNum(lines) == {int(split(lines[i])[1]) : i \in EntryLines(lines)}

(* _new_table_num_to_use: the first n of range(255) not in tables_num, else -1 *)
NewTableNum(nums) ==
    LET free == {n \in 0..(TableRange - 1) : n \notin nums}
    IN  IF free = {} THEN -1 ELSE Min(free)

(* '%d\t%s\n' % (_new_table_num_to_use, table_name) *)
EntryLine(n, name) == FmtInt(n) \o <<TAB>> \o name \o <<NL>>

(* a variant that writes the new entry alone, dropping the lines read *)
AddNewLines_OnlyNew(content, name) ==
    LET lines == readlines(content)
    IN  <<EntryLine(NewTableNum(TablesNum(lines)), name)>>

(* _all_new_lines of add_route_table *)
AddNewLines(content, name) ==
    LET lines == readlines(content)
    IN  Append(lines, EntryLine(NewTableNum(TablesNum(lines)), name))

(* whether delete_route_table skips the line *)
NameMatches(line, name) ==
    LET _s_l == split(line) IN Len(_s_l) > 1 /\ _s_l[2] = name

(* _all_new_lines of delete_route_table *)
KeepLines(lines, name) == SelectSeq(lines, LAMBDA line : ~NameMatches(line, name))

DeleteNewLines(content, name) == KeepLines(readlines(content), name)

(* SafeWrite with the arguments of the restore copy of lines 368 and 405
   exchanged: the damaged file is copied over the backup *)
SafeWrite_RestoreReversed(live, bak, content) ==
    UNION {
        IF b.rc # 0
        THEN {[file |-> live, bck |-> b.dst, backup |-> "fail", write |-> "skipped",
               restore |-> "skipped", delete |-> "skipped", ret |-> "False"]}
        ELSE UNION {
            IF w.rc # 0
            THEN {[file |-> w.file, bck |-> r.dst, backup |-> "ok", write |-> "fail",
                   restore |-> IF r.rc = 0 THEN "ok" ELSE "fail",
                   delete |-> "skipped", ret |-> "False"] :
                     r \in copy_file(w.file, b.dst)}
            ELSE {[file |-> w.file, bck |-> d.file, backup |-> "ok", write |-> "ok",
                   restore |-> "skipped",
                   delete |-> IF d.rc = 0 THEN "ok" ELSE "fail", ret |-> "True"] :
                     d \in delete_file(b.dst)}
            : w \in write_to_file(live, content)}
        : b \in copy_file(live, bak)}

(* SafeWrite without the return False of lines 369 and 406 *)
SafeWrite_NoReturnFalse(live, bak, content) ==
    UNION {
        IF b.rc # 0
        THEN {[file |-> live, bck |-> b.dst, backup |-> "fail", write |-> "skipped",
               restore |-> "skipped", delete |-> "skipped", ret |-> "False"]}
        ELSE UNION {
            IF w.rc # 0
            THEN {[file |-> r.dst, bck |-> b.dst, backup |-> "ok", write |-> "fail",
                   restore |-> IF r.rc = 0 THEN "ok" ELSE "fail",
                   delete |-> "skipped", ret |-> "True"] :
                     r \in copy_file(b.dst, w.file)}
            ELSE {[file |-> w.file, bck |-> d.file, backup |-> "ok", write |-> "ok",
                   restore |-> "skipped",
                   delete |-> IF d.rc = 0 THEN "ok" ELSE "fail", ret |-> "True"] :
                     d \in delete_file(b.dst)}
            : w \in write_to_file(live, content)}
        : b \in copy_file(live, bak)}

(* SafeWrite without the return False of lines 365 and 402: a failed backup
   falls through to the write *)
SafeWrite_NoAbort(live, bak, content) ==
    UNION {
        UNION {
            IF w.rc # 0
            THEN {[file |-> r.dst, bck |-> b.dst,
                   backup |-> IF b.rc = 0 THEN "ok" ELSE "fail", write |-> "fail",
                   restore |-> IF r.rc = 0 THEN "ok" ELSE "fail",
                   delete |-> "skipped", ret |-> "False"] :
                     r \in copy_file(b.dst, w.file)}
            ELSE {[file |-> w.file, bck |-> d.file,
                   backup |-> IF b.rc = 0 THEN "ok" ELSE "fail", write |-> "ok",
                   restore |-> "skipped",
                   delete |-> IF d.rc = 0 THEN "ok" ELSE "fail", ret |-> "True"] :
                     d \in delete_file(b.dst)}
            : w \in write_to_file(live, content)}
        : b \in copy_file(live, bak)}

(* backup, write, restore on failure, delete the backup on success: the
   possible outcomes of the protocol on a live file and a backup file *)
SafeWrite(live, bak, content) ==
    UNION {
        IF b.rc # 0
        THEN {[file |-> live, bck |-> b.dst, backup |-> "fail", write |-> "skipped",
               restore |-> "skipped", delete |-> "skipped", ret |-> "False"]}
        ELSE UNION {
            IF w.rc # 0
            THEN {[file |-> r.dst, bck |-> b.dst, backup |-> "ok", write |-> "fail",
                   restore |-> IF r.rc = 0 THEN "ok" ELSE "fail",
                   delete |-> "skipped", ret |-> "False"] :
                     r \in copy_file(b.dst, w.file)}
            ELSE {[file |-> w.file, bck |-> d.file, backup |-> "ok", write |-> "ok",
                   restore |-> "skipped",
                   delete |-> IF d.rc = 0 THEN "ok" ELSE "fail", ret |-> "True"] :
                     d \in delete_file(b.dst)}
            : w \in write_to_file(live, content)}
        : b \in copy_file(live, bak)}

---------------------------------------------------------------------------
(* The registries the editor starts from, and the table names it is given *)

Names == {<<"a">>, <<"b">>}

LineSet ==
    { <<"0", TAB, "a", NL>>, <<"1", TAB, "b", NL>>, <<"#", SP, "a", NL>>,
      <<NL>>, <<"2", NL>> }

LineSeqs == UNION {[1..n -> LineSet] : n \in 0..MaxLines}

(* the file without the line end of its last line *)
Chopped(content) ==
    IF content = <<>> THEN content ELSE SubSeq(content, 1, Len(content) - 1)

(* every number of range(255) taken *)
FullFile == join([n \in 1..TableRange |-> EntryLine(n - 1, <<"a">>)])

InitFiles ==
    {join(ls) : ls \in LineSeqs} \cup {Chopped(join(ls)) : ls \in LineSeqs}
    \cup {FullFile}

(* the table numbers of the entries are pairwise distinct *)
UniqueNumbers(content) ==
    LET lines == readlines(content)
        nums == {i \in EntryLines(lines) : IsInt(split(lines[i])[1])}
    IN  \A i, j \in nums :
            i # j => int(split(lines[i])[1]) # int(split(lines[j])[1])

NoCall ==
    [kind |-> "none", name |-> <<>>, pre |-> <<>>, new |-> <<>>,
     backup |-> "skipped", write |-> "skipped", restore |-> "skipped",
     delete |-> "skipped", ret |-> "none"]

NoAdd == [valid |-> FALSE, name |-> <<>>, pre |-> <<>>]

(* what the call now starting remembers of the call before it *)
Remember ==
    IF last.kind = "add" /\ last.ret = "True"
    THEN [valid |-> TRUE, name |-> last.name, pre |-> last.pre]
    ELSE NoAdd

RegInit ==
    /\ file \in InitFiles
    /\ bck = NoFile
    /\ last = NoCall
    /\ prevAdd = NoAdd
    /\ origUnique = UniqueNumbers(file)
    /\ allTrue = TRUE
    /\ calls = 0

RegIdle ==
    /\ file = <<>>
    /\ bck = NoFile
    /\ last = NoCall
    /\ prevAdd = NoAdd
    /\ origUnique = TRUE
    /\ allTrue = TRUE
    /\ calls = 0

MaskInit ==
    /\ prefix = -1
    /\ mask = <<>>
    /\ maskCalls = 0

InspInit ==
    /\ pc = "idle"
    /\ ns_list = <<>>
    /\ ns_i = 0
    /\ nsls = <<>>
    /\ l_i = 0
    /\ result = <<>>
    /\ log = <<>>

(* a call's output when the command failed: None *)
None == <<"<None>">>

NoMutate ==
    [fn |-> "none", cmd |-> <<>>, out |-> None, sink |-> FALSE, before |-> <<>>,
     ret |-> <<0, <<>>>>]

MutInit ==
    /\ script = <<>>
    /\ mlast = NoMutate
    /\ mcalls = 0

Procs == {1, 2}

ConcIdle ==
    /\ cpc = [p \in Procs |-> "done"]
    /\ cop = [p \in Procs |-> [kind |-> "none", name |-> <<>>]]
    /\ cnew = [p \in Procs |-> <<>>]
    /\ cret = [p \in Procs |-> "none"]
    /\ overlapped = FALSE
    /\ clobbered = FALSE

Init == RegInit /\ MaskInit /\ InspInit /\ MutInit /\ ConcIdle

(* a call of kind k that ran the protocol on `content` with outcome o *)
Returned(k, name, content, o) ==
    /\ file' = o.file
    /\ bck' = o.bck
    /\ last' = [kind |-> k, name |-> name, pre |-> file, new |-> content,
                backup |-> o.backup, write |-> o.write, restore |-> o.restore,
                delete |-> o.delete, ret |-> o.ret]
    /\ allTrue' = (allTrue /\ o.ret = "True")

add_route_table(name) ==
    /\ calls < MaxCalls
    /\ IF ScanRaises(readlines(file))
       THEN /\ last' = [NoCall EXCEPT !.kind = "add", !.name = name,
                                      !.pre = file, !.ret = "raise"]
            /\ allTrue' = FALSE
            /\ UNCHANGED <<file, bck>>
       ELSE LET content == join(AddNewLines(file, name))
            IN  \E o \in SafeWrite(file, bck, content) :
                    Returned("add", name, content, o)
    /\ prevAdd' = Remember
    /\ calls' = calls + 1
    /\ UNCHANGED <<origUnique, maskVars, mutVars, concVars, inspVars>>

delete_route_table(name) ==
    /\ calls < MaxCalls
    /\ LET content == join(DeleteNewLines(file, name))
       IN  \E o \in SafeWrite(file, bck, content) :
               Returned("delete", name, content, o)
    /\ prevAdd' = Remember
    /\ calls' = calls + 1
    /\ UNCHANGED <<origUnique, maskVars, mutVars, concVars, inspVars>>

Next ==
    \/ \E name \in Names : add_route_table(name)
    \/ \E name \in Names : delete_route_table(name)

Spec == Init /\ [][Next]_vars

---------------------------------------------------------------------------
(* Claims about the route table registry editor, under Spec *)

Called == last.kind \in {"add", "delete"}

(* the line list the last call computed from the file it read *)
NewContent ==
    IF last.kind = "add" THEN join(AddNewLines(last.pre, last.name))
    ELSE join(DeleteNewLines(last.pre, last.name))

(* C1, as stated: when the backup succeeded and the write failed, the
   registry file at return equals the file before the call, whatever the
   restore copy did. *)
C1_RevertedWhateverRestore ==
    (Called /\ last.backup = "ok" /\ last.write = "fail") => file = last.pre

(* C1, amended: when the backup succeeded, the write failed and the restore
   copy succeeded, the registry file at return equals the file before the
   call, and the call returns False. *)
C1_RevertedWhenRestored ==
    (Called /\ last.backup = "ok" /\ last.write = "fail" /\ last.restore = "ok")
        => (file = last.pre /\ last.ret = "False")

C1_Witness ==
    /\ Called /\ last.backup = "ok" /\ last.write = "fail" /\ last.restore = "ok"
    /\ last.new # last.pre
    /\ file = last.pre

(* C2: a call returns True exactly when backup and write both succeeded;
   then the registry file holds exactly the new line list; every other
   combination of step outcomes returns False. *)
C2_TrueIffBackupAndWrite ==
    (Called /\ last.ret # "raise") =>
        /\ (last.ret = "True") <=> (last.backup = "ok" /\ last.write = "ok")
        /\ last.ret = "True" => file = NewContent
        /\ last.ret # "True" => last.ret = "False"

C2_Witness ==
    /\ Called /\ last.ret = "True" /\ file = NewContent /\ file # last.pre

(* C3: when the backup copy fails the call returns False, no write, restore
   or delete step runs, and the registry file is as it was. *)
C3_BackupFailureTouchesNothing ==
    (Called /\ last.backup = "fail") =>
        /\ last.ret = "False"
        /\ last.write = "skipped" /\ last.restore = "skipped"
        /\ last.delete = "skipped"
        /\ file = last.pre

C3_Witness ==
    /\ Called /\ last.backup = "fail" /\ NewContent # last.pre /\ file = last.pre

(* C4, as stated: a successful add_route_table(name) followed at once by a
   successful delete_route_table(name) leaves the registry file with exactly
   the content it had before the add. *)
C4_AddThenDeleteRestores ==
    (last.kind = "delete" /\ last.ret = "True" /\ prevAdd.valid
        /\ prevAdd.name = last.name) => file = prevAdd.pre

(* C5, as stated: a successful add_route_table appends one entry whose
   number is the smallest integer of [0,255) that is not the number of an
   entry of the file read, so never a number already present. *)
C5_SmallestFreeNumber ==
    (last.kind = "add" /\ last.ret = "True") =>
        LET nums == TablesNum(readlines(last.pre))
        IN  \E n \in 0..254 :
                /\ n \notin nums
                /\ \A m \in 0..(n - 1) : m \in nums
                /\ file = last.pre \o EntryLine(n, last.name)

(* C6, as stated, for calls that all returned True: from a registry whose
   entries have pairwise distinct table numbers, the numbers stay pairwise
   distinct after any sequence of calls made one after the other. *)
C6_NumbersStayUnique == (origUnique /\ allTrue) => UniqueNumbers(file)

(* the lines C7 says are always kept *)
NeverAnEntry(line) == IsComment(line) \/ ~NotBlank(line) \/ Len(split(line)) < 2

(* C7, as stated: a successful delete_route_table(name) writes exactly the
   lines whose second token is not name, in order and unchanged, and keeps
   every comment line, blank line and line of fewer than two tokens. *)
C7_DeleteKeepsComments ==
    (last.kind = "delete" /\ last.ret = "True") =>
        LET before == readlines(last.pre)
        IN  /\ file = join(SelectSeq(before,
                        LAMBDA line : ~(Len(split(line)) > 1 /\ split(line)[2] = last.name)))
            /\ SelectSeq(readlines(file), NeverAnEntry)
                   = SelectSeq(before, NeverAnEntry)

---------------------------------------------------------------------------
(* network_prefix_to_mask.  Python integers are unbounded; the values here
   need 33 bits, so an integer is the function from bit position 0..32 to
   its bit. *)

BitPos == 0..32

(* 0xffffffff *)
AllOnes == [i \in BitPos |-> IF i < 32 THEN 1 ELSE 0]

(* 1 << k *)
ShiftOne(k) == [i \in BitPos |-> IF i = k THEN 1 ELSE 0]

(* b - 1, for b > 0: the lowest set bit is cleared and the bits below it set *)
MinusOne(b) ==
    LET low == Min({i \in BitPos : b[i] = 1})
    IN  [i \in BitPos |-> IF i < low THEN 1 ELSE IF i = low THEN 0 ELSE b[i]]

(* a ^ b *)
Xor(a, b) == [i \in BitPos |-> (a[i] + b[i]) % 2]

RECURSIVE Pow2(_)
Pow2(n) == IF n = 0 THEN 1 ELSE 2 * Pow2(n - 1)

(* pack('>I', bits): the four bytes of bits, most significant first;
   struct.error when bits does not fit 32 bits *)
Pack(bits) ==
    IF bits[32] = 1 THEN <<>>
    ELSE [j \in 1..4 |->
             LET base == 8 * (4 - j)
             IN  bits[base] + 2 * bits[base + 1] + 4 * bits[base + 2]
                 + 8 * bits[base + 3] + 16 * bits[base + 4] + 32 * bits[base + 5]
                 + 64 * bits[base + 6] + 128 * bits[base + 7]]

(* inet_ntoa(packed): the four bytes in decimal, joined by dots *)
inet_ntoa(packed) ==
    IF packed = <<>> THEN <<"struct.error">>
    ELSE FmtNat(packed[1]) \o <<".">> \o FmtNat(packed[2]) \o <<".">>
         \o FmtNat(packed[3]) \o <<".">> \o FmtNat(packed[4])

(* network_prefix_to_mask without the "- 1" of line 423 *)
network_prefix_to_mask_NoMinusOne(p) ==
    inet_ntoa(Pack(Xor(AllOnes, ShiftOne(32 - p))))

(* bits = 0xffffffff ^ (1 << 32 - prefix) - 1 ; inet_ntoa(pack('>I', bits)) *)
network_prefix_to_mask(p) ==
    inet_ntoa(Pack(Xor(AllOnes, MinusOne(ShiftOne(32 - p)))))

InitMask == RegIdle /\ MaskInit /\ InspInit /\ MutInit /\ ConcIdle

CallPrefixToMask(p) ==
    /\ maskCalls < MaxMaskCalls
    /\ prefix' = p
    /\ mask' = network_prefix_to_mask(p)
    /\ maskCalls' = maskCalls + 1
    /\ UNCHANGED <<regVars, inspVars, mutVars, concVars>>

NextMask == \E p \in 0..32 : CallPrefixToMask(p)

SpecMask == InitMask /\ [][NextMask]_vars

(* the canonical netmask of prefix length p: byte k (1..4) has its top
   p - 8(k-1) bits set, all eight when that is eight or more, none when it
   is zero or less *)
CanonicalByte(p, k) ==
    LET n == p - 8 * (k - 1)
    IN  IF n >= 8 THEN 255 ELSE IF n <= 0 THEN 0 ELSE 256 - Pow2(8 - n)

CanonicalMask(p) ==
    FmtNat(CanonicalByte(p, 1)) \o <<".">> \o FmtNat(CanonicalByte(p, 2)) \o <<".">>
    \o FmtNat(CanonicalByte(p, 3)) \o <<".">> \o FmtNat(CanonicalByte(p, 4))

(* C8: for every prefix length 0..32 network_prefix_to_mask gives the
   canonical CIDR netmask in dotted form; 0 gives 0.0.0.0, 22 gives
   255.255.252.0, 24 gives 255.255.255.0 and 32 gives 255.255.255.255. *)
C8_CanonicalNetmask ==
    maskCalls > 0 =>
        /\ mask = CanonicalMask(prefix)
        /\ prefix = 0 => mask = <<"0", ".", "0", ".", "0", ".", "0">>
        /\ prefix = 22 =>
               mask = <<"2", "5", "5", ".", "2", "5", "5", ".", "2", "5", "2", ".", "0">>
        /\ prefix = 24 =>
               mask = <<"2", "5", "5", ".", "2", "5", "5", ".", "2", "5", "5", ".", "0">>
        /\ prefix = 32 =>
               mask = <<"2", "5", "5", ".", "2", "5", "5", ".",
                        "2", "5", "5", ".", "2", "5", "5">>

C8_Witness ==
    /\ maskCalls > 0 /\ prefix = 22
    /\ mask = <<"2", "5", "5", ".", "2", "5", "5", ".", "2", "5", "2", ".", "0">>

---------------------------------------------------------------------------
(* get_network_namespace_infos.  A dict is a function from its keys. *)

EmptyDict == [k \in {} |-> k]

(* d.update(e) *)
Update(d, e) ==
    [k \in DOMAIN d \cup DOMAIN e |-> IF k \in DOMAIN e THEN e[k] ELSE d[k]]

(* d[key] = value *)
SetItem(d, key, value) ==
    [k \in DOMAIN d \cup {key} |-> IF k = key THEN value ELSE d[k]]

(* what the host can answer: the named namespaces, and the links of a
   namespace as (index, name) *)
NsPool == <<"ns1", "ns2", "ns3">>

LinkPool ==
    << [index |-> "1", name |-> "lo"], [index |-> "2", name |-> "ens3"],
       [index |-> "3", name |-> "ens4"], [index |-> "4", name |-> "ens5"] >>

(* sudo_utils.call_output of the link query: None when the command fails,
   else its output: nothing, or the JSON array with the link *)
LinkOutputs == {"None", "", "[{link}]"}

(* sudo_utils.call_output of the address query: None when the command
   fails, else its output: nothing, an array without address, or an array
   with one *)
AddrOutputs == {"None", "", "[{addr_info: []}]", "[{addr_info: [{local}]}]"}

(* _fetch_link_info, the definition of lines 103 to 135 that is in force:
   line 123 calls .strip() on the output, which raises AttributeError on None *)
_fetch_link_info(out) ==
    IF out = "None" THEN [raised |-> TRUE, info |-> EmptyDict]
    ELSE IF out = "" THEN [raised |-> FALSE, info |-> EmptyDict]
    ELSE [raised |-> FALSE,
          info |-> [mac |-> "02:00:17:AA:BB:CC", opstate |-> "UP", type |-> "ether"]]

(* _fetch_ip_info: lines 62 to 82 *)
_fetch_ip_info(out) ==
    IF out \in {"None", ""} THEN EmptyDict
    ELSE IF out = "[{addr_info: []}]" THEN EmptyDict
    ELSE [vlanid |-> "None", broadcast |-> "10.0.0.255", address_prefix_l |-> "24",
          address |-> "10.0.0.2", address_subnet |-> "10.0.0.0"]

Yielded(d) == IF DOMAIN d = {} THEN "none" ELSE "info"

InitInspect == RegIdle /\ MaskInit /\ InspInit /\ MutInit /\ ConcIdle

(* lines 185 to 188: _get_namespaces raises when `ip netns list` fails *)
StartInspection ==
    /\ pc = "idle"
    /\ \/ /\ pc' = "raised"
          /\ UNCHANGED <<ns_list, ns_i>>
       \/ \E n \in 0..MaxNs :
              /\ ns_list' = Append(SubSeq(NsPool, 1, n), "")
              /\ ns_i' = 1
              /\ pc' = "ns"
    /\ UNCHANGED <<nsls, l_i, result, log, regVars, maskVars, mutVars, concVars>>

(* lines 189 to 191: call_output(...).splitlines() raises on None *)
NextNamespace ==
    /\ pc = "ns"
    /\ ns_i <= Len(ns_list)
    /\ result' = Append(result, [ns |-> ns_list[ns_i], infos |-> <<>>])
    /\ \/ /\ pc' = "raised"
          /\ UNCHANGED <<nsls, l_i>>
       \/ \E n \in 0..MaxLinks :
              /\ nsls' = SubSeq(LinkPool, 1, n)
              /\ l_i' = 1
              /\ pc' = "links"
    /\ UNCHANGED <<ns_list, ns_i, log, regVars, maskVars, mutVars, concVars>>

(* the if of lines 195 to 200 with the queries answered before the condition
   is evaluated on the link info alone *)
Record_BeforeUpdate(link_info, ip_info, lnk) ==
    IF DOMAIN link_info = {} THEN <<>>
    ELSE <<SetItem(SetItem(Update(link_info, ip_info), "index", lnk.index),
                   "device", lnk.name)>>

(* lines 194 to 200: the records one link adds to _result[_ns] *)
Record(link_info, ip_info, lnk) ==
    LET _new_info == Update(link_info, ip_info)
    IN  IF DOMAIN _new_info = {} THEN <<>>
        ELSE <<SetItem(SetItem(_new_info, "index", lnk.index), "device", lnk.name)>>

(* lines 192 to 200, one pass of the inner loop; an exception of
   _fetch_link_info ends the call *)
ProcessLink ==
    /\ pc = "links"
    /\ l_i <= Len(nsls)
    /\ LET lnk == nsls[l_i]
           here == [ns |-> ns_list[ns_i], index |-> lnk.index, device |-> lnk.name]
       IN  \E lo \in LinkOutputs :
               LET fetched == _fetch_link_info(lo)
               IN  IF fetched.raised
                   THEN /\ pc' = "raised"
                        /\ log' = Append(log, [here |-> here, link |-> "failed",
                                               addr |-> "skipped"])
                        /\ UNCHANGED <<l_i, result>>
                   ELSE \E ao \in AddrOutputs :
                            LET ip_info == _fetch_ip_info(ao)
                            IN  /\ result' =
                                       [result EXCEPT ![Len(result)].infos =
                                            @ \o Record(fetched.info, ip_info, lnk)]
                                /\ log' = Append(log, [here |-> here,
                                                       link |-> Yielded(fetched.info),
                                                       addr |-> Yielded(ip_info)])
                                /\ l_i' = l_i + 1
                                /\ pc' = "links"
    /\ UNCHANGED <<ns_list, ns_i, nsls, regVars, maskVars, mutVars, concVars>>

(* the inner loop ends *)
EndNamespace ==
    /\ pc = "links"
    /\ l_i > Len(nsls)
    /\ ns_i' = ns_i + 1
    /\ pc' = "ns"
    /\ UNCHANGED <<ns_list, nsls, l_i, result, log, regVars, maskVars, mutVars, concVars>>

(* line 202 *)
ReturnResult ==
    /\ pc = "ns"
    /\ ns_i > Len(ns_list)
    /\ pc' = "done"
    /\ UNCHANGED <<ns_list, ns_i, nsls, l_i, result, log, regVars, maskVars, mutVars, concVars>>

NextInspect ==
    \/ StartInspection
    \/ NextNamespace
    \/ ProcessLink
    \/ EndNamespace
    \/ ReturnResult

SpecInspect == InitInspect /\ [][NextInspect]_vars

---------------------------------------------------------------------------
(* Claims about get_network_namespace_infos, under SpecInspect *)

(* the links of namespace ns inspected so far for which a query yielded a
   field, in the order they were listed *)
Interesting(ns) ==
    SelectSeq(log, LAMBDA g : g.here.ns = ns /\ (g.link = "info" \/ g.addr = "info"))

(* C9: a link for which both queries yielded nothing has no record in the
   list of its namespace; every link for which a query yielded a field has
   exactly one, with the link's index and device name; the records are in
   link discovery order. *)
C9_OneRecordPerInterestingLink ==
    \A k \in 1..Len(result) :
        LET infos == result[k].infos
            want == Interesting(result[k].ns)
        IN  /\ Len(infos) = Len(want)
            /\ \A j \in 1..Len(infos) :
                   /\ infos[j].index = want[j].here.index
                   /\ infos[j].device = want[j].here.device

C9_Witness ==
    /\ pc = "done"
    /\ \E i \in 1..(Len(log) - 1) :
           /\ log[i].link = "none" /\ log[i].addr = "none"
           /\ log[i + 1].here.ns = log[i].here.ns
           /\ log[i + 1].link = "none" /\ log[i + 1].addr = "info"
           /\ \E k \in 1..Len(result) :
                  /\ result[k].ns = log[i].here.ns
                  /\ Len(result[k].infos) = 1
                  /\ result[k].infos[1].device = log[i + 1].here.device

(* C10, as stated: a per-link query whose command fails or gives no output
   does not end the inspection. *)
C10_QueryFailureDoesNotAbort ==
    (\E i \in 1..Len(log) : log[i].link = "failed") => pc # "raised"

---------------------------------------------------------------------------
(* add_static_ip_route, add_static_ip_rule, add_firewall_rule.  A command
   line is the sequence of its words; text is a sequence of words, spaces
   and line ends. *)

(* ' '.join(cmd) *)
RECURSIVE JoinSp(_)
JoinSp(words) ==
    IF words = <<>> THEN <<>>
    ELSE IF Len(words) = 1 THEN words
    ELSE <<Head(words), SP>> \o JoinSp(Tail(words))

(* sudo_utils.call_output: None when the command fails, else what the
   command printed *)
CallOutputs == {None, <<>>, <<"RTNETLINK answers: File exists", NL>>}

(* the *args the callers pass *)
ArgLists ==
    { <<"default", "via", "10.0.0.1">>, <<"from", "10.0.0.2", "lookup", "ort1">>,
      <<"-A", "OUTPUT", "-j", "DROP">> }

(* the three functions with the write to the script placed before the test
   of the output *)
RunAndRecord_WriteFirst(cmd, out, sink, text) ==
    LET written == IF sink THEN text \o JoinSp(cmd) \o <<NL>> ELSE text
    IN  IF out # None /\ Len(out) > 0
        THEN [ret |-> <<1, out>>, script |-> written]
        ELSE [ret |-> <<0, <<>>>>, script |-> written]

(* lines 465 to 474, 625 to 634, 650 to 659: the command cmd gave out; sink
   says whether kwargs.get('script') is a sink, text is what it holds *)
RunAndRecord(cmd, out, sink, text) ==
    IF out # None /\ Len(out) > 0
    THEN [ret |-> <<1, out>>, script |-> text]
    ELSE [ret |-> <<0, <<>>>>,
          script |-> IF sink THEN text \o JoinSp(cmd) \o <<NL>> ELSE text]

(* routing_cmd, ip_rule_cmd, fw_rule_cmd *)
BaseCmd(fn) ==
    IF fn = "add_static_ip_route" THEN <<"/usr/sbin/ip", "route", "add">>
    ELSE IF fn = "add_static_ip_rule" THEN <<"/usr/sbin/ip", "rule", "add">>
    ELSE <<"/usr/sbin/iptables">>

Mutate(fn, args, out, sink) ==
    /\ mcalls < MaxMutCalls
    /\ LET cmd == BaseCmd(fn) \o args
           r == RunAndRecord(cmd, out, sink, script)
       IN  /\ script' = r.script
           /\ mlast' = [fn |-> fn, cmd |-> cmd, out |-> out, sink |-> sink,
                        before |-> script, ret |-> r.ret]
    /\ mcalls' = mcalls + 1
    /\ UNCHANGED <<regVars, maskVars, inspVars, concVars>>

add_static_ip_route(args, out, sink) == Mutate("add_static_ip_route", args, out, sink)

add_static_ip_rule(args, out, sink) == Mutate("add_static_ip_rule", args, out, sink)

add_firewall_rule(args, out, sink) == Mutate("add_firewall_rule", args, out, sink)

InitMutate == RegIdle /\ MaskInit /\ InspInit /\ MutInit /\ ConcIdle

NextMutate ==
    \E args \in ArgLists, out \in CallOutputs, sink \in BOOLEAN :
        \/ add_static_ip_route(args, out, sink)
        \/ add_static_ip_rule(args, out, sink)
        \/ add_firewall_rule(args, out, sink)

SpecMutate == InitMutate /\ [][NextMutate]_vars

(* C11: the three functions return (1, output) exactly when the command's
   captured output is not empty and (0, '') otherwise; with a recording sink
   the command line is appended to it as one line exactly when the status is
   0, and the sink is as it was when the status is 1. *)
C11_StatusAndRecording ==
    mcalls > 0 =>
        LET printed == mlast.out # None /\ mlast.out # <<>>
            line == JoinSp(mlast.cmd) \o <<NL>>
        IN  /\ printed => mlast.ret = <<1, mlast.out>>
            /\ ~printed => mlast.ret = <<0, <<>>>>
            /\ mlast.sink =>
                   /\ (script = mlast.before \o line) <=> (mlast.ret[1] = 0)
                   /\ mlast.ret[1] = 1 => script = mlast.before
            /\ ~mlast.sink => script = mlast.before

C11_Witness ==
    /\ mcalls > 1
    /\ mlast.sink /\ mlast.ret[1] = 1 /\ mlast.ret[2] = mlast.out
    /\ script = mlast.before
    /\ script =
           <<"/usr/sbin/ip", SP, "route", SP, "add", SP, "default", SP, "via", SP,
             "10.0.0.1", NL>>

---------------------------------------------------------------------------
(* Two registry calls whose steps interleave: each call is the steps of
   add_route_table or delete_route_table in order, and between two steps of
   one call the other call may run. *)

Other(p) == CHOOSE q \in Procs : q # p

(* the call of q is between its first step and its return *)
UnderWay(q) == cpc[q] \notin {"idle", "done"}

(* the write of q has succeeded *)
Wrote(q) == cpc[q] = "delete" \/ cret[q] = "True"

ConcFiles ==
    { <<>>,
      <<"0", TAB, "a", NL>>,
      <<"0", TAB, "a", NL, "1", TAB, "b", NL>>,
      <<"#", SP, "a", NL, "2", NL>> }

InitConc ==
    /\ file \in ConcFiles
    /\ bck = NoFile
    /\ last = NoCall
    /\ prevAdd = NoAdd
    /\ origUnique = TRUE
    /\ allTrue = TRUE
    /\ calls = 0
    /\ MaskInit /\ InspInit /\ MutInit
    /\ cpc = [p \in Procs |-> "idle"]
    /\ cop = [p \in Procs |-> [kind |-> "none", name |-> <<>>]]
    /\ cnew = [p \in Procs |-> <<>>]
    /\ cret = [p \in Procs |-> "none"]
    /\ overlapped = FALSE
    /\ clobbered = FALSE

ConcFrame == UNCHANGED <<last, prevAdd, origUnique, allTrue, calls,
                         maskVars, inspVars, mutVars>>

(* lines 346 to 361, or 389 to 398: read the registry, build the new lines *)
ConcRead(p, kind, name) ==
    /\ cpc[p] = "idle"
    /\ cop' = [cop EXCEPT ![p] = [kind |-> kind, name |-> name]]
    /\ IF kind = "add" /\ ScanRaises(readlines(file))
       THEN /\ cpc' = [cpc EXCEPT ![p] = "done"]
            /\ cret' = [cret EXCEPT ![p] = "raise"]
            /\ UNCHANGED cnew
       ELSE /\ cpc' = [cpc EXCEPT ![p] = "backup"]
            /\ cnew' = [cnew EXCEPT ![p] =
                            IF kind = "add" THEN join(AddNewLines(file, name))
                            ELSE join(DeleteNewLines(file, name))]
            /\ UNCHANGED cret
    /\ overlapped' = (overlapped \/ UnderWay(Other(p)))
    /\ UNCHANGED <<file, bck, clobbered>>
    /\ ConcFrame

(* lines 363 to 365, or 400 to 402 *)
ConcBackup(p) ==
    /\ cpc[p] = "backup"
    /\ \E b \in copy_file(file, bck) :
           /\ bck' = b.dst
           /\ IF b.rc # 0
              THEN /\ cpc' = [cpc EXCEPT ![p] = "done"]
                   /\ cret' = [cret EXCEPT ![p] = "False"]
              ELSE /\ cpc' = [cpc EXCEPT ![p] = "write"]
                   /\ UNCHANGED cret
    /\ overlapped' = (overlapped \/ UnderWay(Other(p)))
    /\ UNCHANGED <<file, cop, cnew, clobbered>>
    /\ ConcFrame

(* line 366, or 403 *)
ConcWrite(p) ==
    /\ cpc[p] = "write"
    /\ \E w \in write_to_file(file, cnew[p]) :
           /\ file' = w.file
           /\ cpc' = [cpc EXCEPT ![p] = IF w.rc # 0 THEN "restore" ELSE "delete"]
    /\ overlapped' = (overlapped \/ UnderWay(Other(p)))
    /\ UNCHANGED <<bck, cop, cnew, cret, clobbered>>
    /\ ConcFrame

(* lines 368 and 369, or 405 and 406 *)
ConcRestore(p) ==
    /\ cpc[p] = "restore"
    /\ \E r \in copy_file(bck, file) :
           /\ file' = r.dst
           /\ clobbered' = (clobbered \/ (r.rc = 0 /\ Wrote(Other(p))
                                            /\ r.dst # cnew[Other(p)]))
    /\ cpc' = [cpc EXCEPT ![p] = "done"]
    /\ cret' = [cret EXCEPT ![p] = "False"]
    /\ overlapped' = (overlapped \/ UnderWay(Other(p)))
    /\ UNCHANGED <<bck, cop, cnew>>
    /\ ConcFrame

(* lines 371 and 373, or 408 and 410 *)
ConcDelete(p) ==
    /\ cpc[p] = "delete"
    /\ \E d \in delete_file(bck) : bck' = d.file
    /\ cpc' = [cpc EXCEPT ![p] = "done"]
    /\ cret' = [cret EXCEPT ![p] = "True"]
    /\ overlapped' = (overlapped \/ UnderWay(Other(p)))
    /\ UNCHANGED <<file, cop, cnew, clobbered>>
    /\ ConcFrame

NextConc ==
    \E p \in Procs :
        \/ \E kind \in {"add", "delete"}, name \in Names : ConcRead(p, kind, name)
        \/ ConcBackup(p)
        \/ ConcWrite(p)
        \/ ConcRestore(p)
        \/ ConcDelete(p)

SpecConc == InitConc /\ [][NextConc]_vars

---------------------------------------------------------------------------
(* Claims about concurrent registry calls, under SpecConc *)

BothReturned == \A p \in Procs : cpc[p] = "done" /\ cop[p].kind # "none"

(* the entry a successful add appended *)
EntryOf(p) ==
    LET lines == readlines(cnew[p]) IN lines[Len(lines)]

(* a call that returned success has its entry missing from the registry,
   though the other call, successful too, was not a delete of that name *)
LostEntry ==
    /\ BothReturned
    /\ \E p \in Procs :
           /\ cop[p].kind = "add" /\ cret[p] = "True" /\ cret[Other(p)] = "True"
           /\ ~(cop[Other(p)].kind = "delete" /\ cop[Other(p)].name = cop[p].name)
           /\ \A i \in 1..Len(readlines(file)) : readlines(file)[i] # EntryOf(p)

(* two entries share a table number *)
SharedNumber == BothReturned /\ ~UniqueNumbers(file)

(* a failed call's restore replaced the other call's successful write *)
RestoreOverwrote == clobbered

Anomaly == LostEntry \/ SharedNumber \/ RestoreOverwrote

(* C12: the registry editor is not safe against concurrent writers. Calls
   that run one after the other never lose a successful call's entry, never
   leave two entries with one table number and never restore over a
   successful write; every state showing one of these has two calls whose
   steps interleaved, and such a state is reachable (C12_Witness). *)
C12_AnomalyOnlyWhenInterleaved == Anomaly => overlapped

(* both calls added a different name, both returned True, their steps
   interleaved, and the registry holds the entry of one of them only *)
C12_Witness ==
    /\ LostEntry
    /\ overlapped
    /\ \A p \in Procs : cop[p].kind = "add" /\ cret[p] = "True"
    /\ cop[1].name # cop[2].name
    /\ file \in {cnew[1], cnew[2]}

===========================================================================
